---- MODULE Spec2Model ----
(***************************************************************************)
(* pogoda_alert.py: one scheduled run of the rain alert.  A run loads the  *)
(* state file, merges the --tg-chat seed ids, applies the /start and /stop *)
(* commands of the getUpdates batch, evaluates the 24h forecast, welcomes  *)
(* the new subscribers, decides whether the rain state changed, broadcasts *)
(* the status and saves the state file.                                    *)
(***************************************************************************)
EXTENDS Integers, Sequences, FiniteSets, TLC

VARIABLES
    state_file,     \* the JSON state file: NoFile or <<the dict written by save_state>>
    pc,             \* position of the current run in main(), or how the last run ended
    now,            \* minutes since today's midnight at the start of the run
    seed_ids,       \* chat ids parsed from --tg-chat
    st,             \* the state dict in memory
    offset,         \* the offset passed to getUpdates
    upd_ok,         \* whether getUpdates answered
    upd,            \* upd["result"], the batch of updates
    new_subs,       \* chats added by /start in this run
    removed_subs,   \* chats removed by /stop in this run
    has_rain,       \* the rain signal computed from the forecast
    prev_rain,      \* st["rain_state"] as read at the decision
    send_rain,      \* whether the status is broadcast in this run
    rain_msg,       \* the text to broadcast
    sent,           \* the send_telegram calls of this run, in order
    detections,     \* history: how many of the latest earlier runs in a row computed rain
    last_alert,     \* history: the signal of the latest earlier run that broadcast
    ev              \* the evaluator's inputs: fc["hourly"] and the two thresholds

vars == <<state_file, pc, now, seed_ids, st, offset, upd_ok, upd, new_subs,
          removed_subs, has_rain, prev_rain, send_rain, rain_msg, sent, detections,
          last_alert, ev>>

----------------------------------------------------------------------------
(* Bounds of the model *)

MaxBatch == 2      \* longest getUpdates batch
MaxSamples == 2    \* most hourly samples of a forecast drawn for the evaluator

----------------------------------------------------------------------------
(* Python values *)

None == "None"     \* an optional bool that is unset
NoneId == -1       \* an optional update id that is unset (update ids are positive)
NoChat == 0        \* chat.get("id") of an update that carries no message
NoFile == <<>>     \* the state file does not exist; <<d>> is a file holding the dict d

PyBool(b) == IF b THEN "True" ELSE "False"

Range(s) == {s[i] : i \in 1..Len(s)}

SeqsUpTo(S, n) == UNION {[1..k -> S] : k \in 0..n}

DEFAULT_STATE ==
    [rain_state |-> None, subscribers |-> <<>>, last_update_id |-> NoneId,
     last_status_text |-> None]

load_state(file) == IF file = NoFile THEN DEFAULT_STATE ELSE file[1]

----------------------------------------------------------------------------
(* Inputs of a run *)

Chats == {111, 222, 333}
FeedChats == {111, 333}
UpdateIds == {5, 6}
Texts == {"/start", "/stop", " /START "}

\* (text or "").strip().lower() on the texts of the feed
NormText(text) ==
    CASE text = "/start" -> "/start"
      [] text = " /START " -> "/start"
      [] text = "/stop" -> "/stop"
      [] OTHER -> text

Items ==
    [update_id : UpdateIds, chat_id : FeedChats, text : Texts]
    \cup [update_id : UpdateIds, chat_id : {NoChat}, text : {"hi"}]

Batches == SeqsUpTo(Items, MaxBatch)

\* the values of --tg-chat, split at the commas
TgChatChoices == {<<>>, <<"111", " 222", "x", "", "222">>}

\* int(part.strip()): the chat id, or 0 when int() raises ValueError
ParseChatId(s) ==
    CASE s = "111" -> 111
      [] s = " 222" -> 222
      [] s = "222" -> 222
      [] OTHER -> 0

RECURSIVE ParseSeedIds(_)
ParseSeedIds(parts) ==
    IF parts = <<>> THEN <<>>
    ELSE LET s == Head(parts)
             rest == ParseSeedIds(Tail(parts))
         IN  IF s = "" \/ ParseChatId(s) = 0 THEN rest
             ELSE <<ParseChatId(s)>> \o rest

\* wall clock times <<hour, minute>> at which a run may start
NowChoices == {<<0, 0>>, <<6, 59>>, <<7, 0>>, <<22, 0>>}

\* faulty variant: the break ends at 06:00
NightBreakUntilSix(hour, minute) ==
    (hour >= 22) \/ (hour < 6)

NightBreak(hour, minute) ==
    (hour >= 22) \/ (hour < 6) \/ (hour = 6 /\ minute <= 59)

----------------------------------------------------------------------------
(* Subscriber ledger *)

\* faulty variant: appends without looking
unique_add_always(lst, item) == [lst |-> Append(lst, item), added |-> TRUE]

unique_add(lst, item) ==
    IF item \notin Range(lst)
    THEN [lst |-> Append(lst, item), added |-> TRUE]
    ELSE [lst |-> lst, added |-> FALSE]

\* list.remove(item): drop the first occurrence
RECURSIVE ListRemove(_, _)
ListRemove(lst, item) ==
    IF lst = <<>> THEN <<>>
    ELSE IF Head(lst) = item THEN Tail(lst)
         ELSE <<Head(lst)>> \o ListRemove(Tail(lst), item)

\* faulty variants: the seeds are appended as they come; the seeds are merged
\* only into an empty list
SeedSubscribersAppendAll(subscribers, ids) == subscribers \o ids

SeedSubscribersWhenEmpty(subscribers, ids) ==
    IF subscribers = <<>> THEN ids ELSE subscribers

\* for cid in seed_ids: unique_add(st["subscribers"], cid)
RECURSIVE SeedSubscribers(_, _)
SeedSubscribers(subscribers, ids) ==
    IF ids = <<>> THEN subscribers
    ELSE SeedSubscribers(unique_add(subscribers, Head(ids)).lst, Tail(ids))

GetUpdatesOffset(last_update_id) ==
    IF last_update_id # NoneId THEN last_update_id + 1 ELSE NoneId

\* faulty variant: the cursor follows the last update read
NextMaxUpdateIdLast(max_update_id, uid) == uid

NextMaxUpdateId(max_update_id, uid) ==
    IF max_update_id = NoneId \/ uid > max_update_id THEN uid ELSE max_update_id

\* one pass of the loop over upd["result"]; s holds the loop's variables
ProcessItem(s, item) ==
    LET m == NextMaxUpdateId(s.max_update_id, item.update_id)
        s1 == [s EXCEPT !.max_update_id = m]
        text_l == NormText(item.text)
        chat_id == item.chat_id
    IN  IF chat_id = NoChat THEN s1
        ELSE IF text_l = "/start"
             THEN LET r == unique_add(s1.subscribers, chat_id)
                  IN  IF r.added
                      THEN [s1 EXCEPT !.subscribers = r.lst,
                                      !.new_subs = Append(@, chat_id)]
                      ELSE s1
        ELSE IF text_l = "/stop"
             THEN IF chat_id \in Range(s1.subscribers)
                  THEN [s1 EXCEPT !.subscribers = ListRemove(@, chat_id),
                                  !.removed_subs = Append(@, chat_id)]
                  ELSE s1
        ELSE s1

\* faulty variant: the batch is read newest first
RECURSIVE ProcessBatchNewestFirst(_, _)
ProcessBatchNewestFirst(s, batch) ==
    IF batch = <<>> THEN s
    ELSE ProcessBatchNewestFirst(ProcessItem(s, batch[Len(batch)]),
                                 SubSeq(batch, 1, Len(batch) - 1))

RECURSIVE ProcessBatch(_, _)
ProcessBatch(s, batch) ==
    IF batch = <<>> THEN s
    ELSE ProcessBatch(ProcessItem(s, Head(batch)), Tail(batch))

LoopStart(state) ==
    [subscribers |-> state.subscribers, new_subs |-> <<>>, removed_subs |-> <<>>,
     max_update_id |-> state.last_update_id]

\* if max_update_id is not None: st["last_update_id"] = max_update_id
StoreCursor(last_update_id, max_update_id) ==
    IF max_update_id # NoneId THEN max_update_id ELSE last_update_id

----------------------------------------------------------------------------
(* Forecast evaluator.  Times are minutes since today's midnight, amounts  *)
(* are tenths of a millimetre.                                             *)

Null == -1             \* a JSON null in an hourly array (amounts are never negative)
PROG_OPAD == 50        \* --prog-opad, percent
PROG_OPAD_MM == 3      \* --prog-opad-mm, 0.3 mm

_to_float(x) == IF x = Null THEN 0 ELSE x

H(h) == 60 * h

Forecasts ==
    { [time |-> <<H(8), H(30)>>, precipitation |-> <<0, 0>>,
       precipitation_probability |-> <<10, 10>>],
      [time |-> <<H(9), H(10)>>, precipitation |-> <<0, Null>>,
       precipitation_probability |-> <<60, Null>>],
      [time |-> <<H(8), H(23)>>, precipitation |-> <<0, 3>>,
       precipitation_probability |-> <<10, 10>>],
      [time |-> <<H(6), H(47)>>, precipitation |-> <<20, 20>>,
       precipitation_probability |-> <<90, 90>>] }

\* faulty variant: the sample at now + 24h is left out
next24_indices_open(times, t) ==
    {i \in 1..Len(times) : t <= times[i] /\ times[i] < t + H(24)}

next24_indices(times, t) ==
    {i \in 1..Len(times) : t <= times[i] /\ times[i] <= t + H(24)}

\* faulty variant: the probability test is turned round
HasRainProbBelow(fc, t, prog_opad, prog_opad_mm) ==
    LET idx24 == next24_indices(fc.time, t)
        prob_trigger == \E i \in idx24 :
                            _to_float(fc.precipitation_probability[i]) <= prog_opad
        mm_trigger == \E i \in idx24 : _to_float(fc.precipitation[i]) >= prog_opad_mm
    IN  prob_trigger \/ mm_trigger

HasRain(fc, t, prog_opad, prog_opad_mm) ==
    LET idx24 == next24_indices(fc.time, t)
        prob_trigger == \E i \in idx24 :
                            _to_float(fc.precipitation_probability[i]) >= prog_opad
        mm_trigger == \E i \in idx24 : _to_float(fc.precipitation[i]) >= prog_opad_mm
    IN  prob_trigger \/ mm_trigger

\* current_status_text = f"[{loc['name']}] {core}" (Polish letters written in ASCII)
StatusText(rain) ==
    IF rain THEN "[Szczecin] Deszcz w prognozie w ciagu 24 godzin."
    ELSE "[Szczecin] Brak deszczu przez najblizsze 24h."

StopText == "Zostales wypisany z alertow."

----------------------------------------------------------------------------
(* Notification state machine *)

\* the streak of rain detections after one more run, counted up to DEBOUNCE_NEED
DEBOUNCE_NEED == 2
Streak(n, rain) ==
    IF ~rain THEN 0 ELSE IF n < DEBOUNCE_NEED THEN n + 1 ELSE n

\* faulty variants of the decision
SendRainEveryRun(prev, rain) == TRUE

SendRainNotOnFirstRun(prev, rain) == prev # None /\ prev # PyBool(rain)

SendRainOnEntryOnly(prev, rain) == prev = None \/ (prev # PyBool(rain) /\ rain)

SendRainDebounced(prev, rain) ==
    prev = None \/ (prev # PyBool(rain) /\ (rain => detections + 1 >= DEBOUNCE_NEED))

\* send_rain: first run, or the computed signal differs from the stored one
SendRain(prev, rain) ==
    IF prev = None THEN TRUE
    ELSE IF prev # PyBool(rain) THEN TRUE
    ELSE FALSE

\* faulty variant: the first run leaves rain_state unset
RainStateAfterFirstRunUnset(prev, rain) ==
    IF prev = None THEN None
    ELSE IF prev # PyBool(rain) THEN PyBool(rain)
    ELSE prev

\* st["rain_state"] after the decision
RainStateAfter(prev, rain) ==
    IF prev = None THEN PyBool(rain)
    ELSE IF prev # PyBool(rain) THEN PyBool(rain)
    ELSE prev

\* iteration order of a CPython set of at most 4 small ints without slot collisions:
\* the table has 8 slots, an int sits in slot hash & 7, slots are read in order
RECURSIVE SetOrder(_)
SetOrder(S) ==
    IF S = {} THEN <<>>
    ELSE LET x == CHOOSE x \in S : \A y \in S : (x % 8) <= (y % 8)
         IN  <<x>> \o SetOrder(S \ {x})

\* all_ids = list({*st["subscribers"], *seed_ids})
AllIds(subscribers, ids) == SetOrder(Range(subscribers) \cup Range(ids))

Sends(kind) == SelectSeq(sent, LAMBDA m : m.kind = kind)

----------------------------------------------------------------------------
(* The run *)

NoForecast == <<>>     \* no forecast at hand

Ended == {"idle", "night", "no_token", "no_location", "error", "done"}

Init ==
    /\ state_file = NoFile
    /\ pc = "idle"
    /\ now = 0
    /\ seed_ids = <<>>
    /\ st = DEFAULT_STATE
    /\ offset = NoneId
    /\ upd_ok = FALSE
    /\ upd = <<>>
    /\ new_subs = <<>>
    /\ removed_subs = <<>>
    /\ has_rain = FALSE
    /\ prev_rain = None
    /\ send_rain = FALSE
    /\ rain_msg = None
    /\ sent = <<>>
    /\ detections = 0
    /\ last_alert = None
    /\ ev = NoForecast

\* a new process: every local of main() starts afresh
FreshLocals ==
    /\ offset' = NoneId
    /\ upd_ok' = FALSE
    /\ upd' = <<>>
    /\ new_subs' = <<>>
    /\ removed_subs' = <<>>
    /\ has_rain' = FALSE
    /\ prev_rain' = None
    /\ send_rain' = FALSE
    /\ rain_msg' = None
    /\ sent' = <<>>
    /\ detections' = IF pc = "done" THEN Streak(detections, has_rain) ELSE detections
    /\ last_alert' = IF pc = "done" /\ send_rain THEN PyBool(has_rain) ELSE last_alert
    /\ UNCHANGED ev

\* the run starts during the night break: sys.exit(0) before anything else
NightExitAt(times) ==
    /\ pc \in Ended
    /\ \E hm \in times :
        /\ NightBreak(hm[1], hm[2])
        /\ now' = H(hm[1]) + hm[2]
    /\ pc' = "night"
    /\ seed_ids' = <<>>
    /\ st' = DEFAULT_STATE
    /\ FreshLocals
    /\ UNCHANGED state_file

NightExit == NightExitAt(NowChoices)

\* no --tg-token: sys.exit(2)
NoTokenExitAt(times) ==
    /\ pc \in Ended
    /\ \E hm \in times :
        /\ ~NightBreak(hm[1], hm[2])
        /\ now' = H(hm[1]) + hm[2]
    /\ pc' = "no_token"
    /\ seed_ids' = <<>>
    /\ st' = DEFAULT_STATE
    /\ FreshLocals
    /\ UNCHANGED state_file

NoTokenExit == NoTokenExitAt(NowChoices)

\* load_state() and the merge of the --tg-chat seed ids
LoadAndSeedAt(times) ==
    /\ pc \in Ended
    /\ \E hm \in times, tg_chat \in TgChatChoices :
        /\ ~NightBreak(hm[1], hm[2])
        /\ now' = H(hm[1]) + hm[2]
        /\ seed_ids' = ParseSeedIds(tg_chat)
        /\ st' = [load_state(state_file) EXCEPT
                    !.subscribers = SeedSubscribers(@, ParseSeedIds(tg_chat))]
    /\ pc' = "updates"
    /\ FreshLocals
    /\ UNCHANGED state_file

LoadAndSeed == LoadAndSeedAt(NowChoices)

\* the loop over upd["result"] and the store of the cursor
ApplyUpdates(batch) ==
    LET s == ProcessBatch(LoopStart(st), batch)
    IN  /\ st' = [st EXCEPT !.subscribers = s.subscribers,
                            !.last_update_id = StoreCursor(@, s.max_update_id)]
        /\ new_subs' = s.new_subs
        /\ removed_subs' = s.removed_subs

GetUpdates ==
    /\ pc = "updates"
    /\ offset' = GetUpdatesOffset(st.last_update_id)
    /\ \E batch \in Batches :
        /\ upd' = batch
        /\ ApplyUpdates(batch)
    /\ upd_ok' = TRUE
    /\ pc' = "stop_loop"
    /\ UNCHANGED <<state_file, now, seed_ids, has_rain, prev_rain, send_rain,
                   rain_msg, sent, detections,
                   last_alert, ev>>

\* faulty variant: no except clause around getUpdates, the failure ends the run
GetUpdatesFailsAborts ==
    /\ pc = "updates"
    /\ offset' = GetUpdatesOffset(st.last_update_id)
    /\ pc' = "error"
    /\ UNCHANGED <<state_file, now, seed_ids, st, upd_ok, upd, new_subs, removed_subs,
                   has_rain, prev_rain, send_rain, rain_msg, sent, detections,
                   last_alert, ev>>

\* getUpdates raised: upd = {"ok": False, "result": []}
GetUpdatesFails ==
    /\ pc = "updates"
    /\ offset' = GetUpdatesOffset(st.last_update_id)
    /\ upd' = <<>>
    /\ ApplyUpdates(<<>>)
    /\ upd_ok' = FALSE
    /\ pc' = "stop_loop"
    /\ UNCHANGED <<state_file, now, seed_ids, has_rain, prev_rain, send_rain,
                   rain_msg, sent, detections,
                   last_alert, ev>>

\* send_telegram inside try/except: a failure is printed and the loop goes on.
\* The batch is not read after its loop: the steps that follow forget it.
Send(kind, cid, text, ok) ==
    sent' = Append(sent, [kind |-> kind, to |-> cid, text |-> text, ok |-> ok])

\* faulty variant: no except clause, a failed send ends the run
AfterSendRaises(ok, here) == IF ok THEN here ELSE "error"

\* where the run goes on after a send: the except clause keeps it in its loop
AfterSend(ok, here) == here

SendStop ==
    /\ pc = "stop_loop"
    /\ Len(Sends("stop")) < Len(removed_subs)
    /\ \E ok \in BOOLEAN :
        /\ Send("stop", removed_subs[Len(Sends("stop")) + 1], StopText, ok)
        /\ pc' = AfterSend(ok, pc)
    /\ upd' = <<>>
    /\ UNCHANGED <<state_file, now, seed_ids, st, offset, upd_ok, new_subs,
                   removed_subs, has_rain, prev_rain, send_rain, rain_msg, detections,
                   last_alert, ev>>

\* geocode_city finds the city; the batch is not read after the loop
GeocodeCity ==
    /\ pc = "stop_loop"
    /\ Len(Sends("stop")) = Len(removed_subs)
    /\ pc' = "forecast"
    /\ upd' = <<>>
    /\ UNCHANGED <<state_file, now, seed_ids, st, offset, upd_ok, new_subs,
                   removed_subs, has_rain, prev_rain, send_rain, rain_msg, sent,
                   detections,
                   last_alert, ev>>

\* faulty variant: the state is saved on the way out
GeocodeNoResultSaves ==
    /\ pc = "stop_loop"
    /\ Len(Sends("stop")) = Len(removed_subs)
    /\ pc' = "no_location"
    /\ upd' = <<>>
    /\ state_file' = <<st>>
    /\ UNCHANGED <<now, seed_ids, st, offset, upd_ok, new_subs,
                   removed_subs, has_rain, prev_rain, send_rain, rain_msg, sent,
                   detections, last_alert, ev>>

\* geocode_city finds no result: SystemExit, nothing is saved
GeocodeNoResult ==
    /\ pc = "stop_loop"
    /\ Len(Sends("stop")) = Len(removed_subs)
    /\ pc' = "no_location"
    /\ upd' = <<>>
    /\ UNCHANGED <<state_file, now, seed_ids, st, offset, upd_ok, new_subs,
                   removed_subs, has_rain, prev_rain, send_rain, rain_msg, sent,
                   detections,
                   last_alert, ev>>

\* fetch_forecast raises: the exception reaches __main__, sys.exit(2)
FetchForecastFails ==
    /\ pc = "forecast"
    /\ pc' = "error"
    /\ UNCHANGED <<state_file, now, seed_ids, st, offset, upd_ok, upd, new_subs,
                   removed_subs, has_rain, prev_rain, send_rain, rain_msg, sent,
                   detections,
                   last_alert, ev>>

\* fetch_forecast answers and the 24h decision is computed
Evaluate ==
    /\ pc = "forecast"
    /\ \E fc \in Forecasts : has_rain' = HasRain(fc, now, PROG_OPAD, PROG_OPAD_MM)
    /\ pc' = "welcome_loop"
    /\ UNCHANGED <<state_file, now, seed_ids, st, offset, upd_ok, upd, new_subs,
                   removed_subs, prev_rain, send_rain, rain_msg, sent, detections,
                   last_alert, ev>>

SendWelcome ==
    /\ pc = "welcome_loop"
    /\ Len(Sends("welcome")) < Len(new_subs)
    /\ \E ok \in BOOLEAN :
        /\ Send("welcome", new_subs[Len(Sends("welcome")) + 1], StatusText(has_rain), ok)
        /\ pc' = AfterSend(ok, pc)
    /\ UNCHANGED <<state_file, now, seed_ids, st, offset, upd_ok, upd, new_subs,
                   removed_subs, has_rain, prev_rain, send_rain, rain_msg, detections,
                   last_alert, ev>>

\* last_status_text, then first run / change of state / no change
Decide ==
    /\ pc = "welcome_loop"
    /\ Len(Sends("welcome")) = Len(new_subs)
    /\ prev_rain' = st.rain_state
    /\ send_rain' = SendRain(st.rain_state, has_rain)
    /\ rain_msg' = IF SendRain(st.rain_state, has_rain)
                   THEN StatusText(has_rain) ELSE None
    /\ st' = [st EXCEPT !.last_status_text = StatusText(has_rain),
                        !.rain_state = RainStateAfter(@, has_rain)]
    /\ pc' = "alert_loop"
    /\ UNCHANGED <<state_file, now, seed_ids, offset, upd_ok, upd, new_subs,
                   removed_subs, has_rain, sent, detections,
                   last_alert, ev>>

\* the recipients of the broadcast: all_ids when send_rain and rain_msg, else none
AlertList ==
    IF send_rain /\ rain_msg # None THEN AllIds(st.subscribers, seed_ids) ELSE <<>>

SendAlert ==
    /\ pc = "alert_loop"
    /\ Len(Sends("alert")) < Len(AlertList)
    /\ \E ok \in BOOLEAN :
        /\ Send("alert", AlertList[Len(Sends("alert")) + 1], rain_msg, ok)
        /\ pc' = AfterSend(ok, pc)
    /\ UNCHANGED <<state_file, now, seed_ids, st, offset, upd_ok, upd, new_subs,
                   removed_subs, has_rain, prev_rain, send_rain, rain_msg, detections,
                   last_alert, ev>>

SaveState ==
    /\ pc = "alert_loop"
    /\ Len(Sends("alert")) = Len(AlertList)
    /\ state_file' = <<st>>
    /\ pc' = "done"
    /\ UNCHANGED <<now, seed_ids, st, offset, upd_ok, upd, new_subs, removed_subs,
                   has_rain, prev_rain, send_rain, rain_msg, sent, detections,
                   last_alert, ev>>

Next ==
    \/ NightExit
    \/ NoTokenExit
    \/ LoadAndSeed
    \/ GetUpdates
    \/ GetUpdatesFails
    \/ SendStop
    \/ GeocodeCity
    \/ GeocodeNoResult
    \/ FetchForecastFails
    \/ Evaluate
    \/ SendWelcome
    \/ Decide
    \/ SendAlert
    \/ SaveState

Spec == Init /\ [][Next]_vars

----------------------------------------------------------------------------
(* Properties *)

Persisted == load_state(state_file)

NoDup(s) == \A i, j \in 1..Len(s) : s[i] = s[j] => i = j

Recipients(kind) == [i \in 1..Len(Sends(kind)) |-> Sends(kind)[i].to]

\* the run has passed the decision on the rain state
Decided == pc \in {"alert_loop", "done"}

\* the broadcast went out: one attempt per id of the subscribers and the seeds,
\* each with the status text of the computed signal
Broadcast ==
    /\ {m.to : m \in Range(Sends("alert"))} = Range(st.subscribers) \cup Range(seed_ids)
    /\ \A m \in Range(Sends("alert")) : m.text = StatusText(has_rain)

\* C1: in a run that starts with a stored rain_state, the status is broadcast
\* if and only if the computed signal differs from the stored one: when they are
\* equal no broadcast message is sent and rain_state stays, when they differ the
\* broadcast goes out in that run and rain_state becomes the computed signal.
C1_BroadcastIffChanged ==
    /\ ~Decided => Sends("alert") = <<>>
    /\ (Decided /\ prev_rain # None) =>
        LET changed == prev_rain # PyBool(has_rain)
        IN  /\ send_rain = changed
            /\ ~changed => (Sends("alert") = <<>> /\ st.rain_state = prev_rain)
            /\ changed => st.rain_state = PyBool(has_rain)
            /\ pc = "done" =>
                /\ Persisted.rain_state = PyBool(has_rain)
                /\ changed => Broadcast

C1_Witness ==
    /\ pc = "done"
    /\ prev_rain = "False"
    /\ has_rain
    /\ Len(Sends("alert")) >= 2

\* C2: a first run (rain_state unset) always produces a non-empty status message
\* and sets rain_state to the computed signal, whatever that signal is.
C2_FirstRunNotifies ==
    (Decided /\ prev_rain = None) =>
        /\ send_rain
        /\ rain_msg = StatusText(has_rain)
        /\ rain_msg \notin {None, ""}
        /\ st.rain_state = PyBool(has_rain)
        /\ pc = "done" => (Broadcast /\ Persisted.rain_state = PyBool(has_rain))

C2_Witness ==
    /\ pc = "done"
    /\ prev_rain = None
    /\ ~has_rain
    /\ Len(Sends("alert")) >= 1
    /\ Persisted.rain_state = "False"

\* C3 as stated: entering RAIN from NO_RAIN needs two runs in a row that detect
\* rain, and a run without rain after a single detection sends no notification.
C3_DebounceAsStated ==
    /\ (Decided /\ prev_rain = "False" /\ has_rain /\ send_rain)
            => detections + 1 >= DEBOUNCE_NEED
    /\ (Decided /\ ~has_rain /\ detections = 1) => ~send_rain

\* C3 amended: there is no debounce.  The first run that detects rain in the
\* NO_RAIN state enters RAIN and broadcasts; a run without rain that follows a
\* single detection broadcasts the exit.
C3_NoDebounce ==
    /\ (Decided /\ prev_rain = "False" /\ has_rain) =>
        /\ detections = 0
        /\ send_rain
        /\ st.rain_state = "True"
        /\ pc = "done" => Broadcast
    /\ (Decided /\ ~has_rain /\ detections = 1) =>
        /\ prev_rain = "True"
        /\ send_rain
        /\ pc = "done" => Broadcast

C3_Witness ==
    /\ pc = "done"
    /\ prev_rain = "False"
    /\ has_rain
    /\ detections = 0
    /\ Len(Sends("alert")) >= 1

\* C4: a run that starts in RAIN and computes no rain sets rain_state to false
\* and broadcasts in that same run, however many runs detected rain before.
C4_ExitFiresAtOnce ==
    (Decided /\ prev_rain = "True" /\ ~has_rain) =>
        /\ st.rain_state = "False"
        /\ send_rain
        /\ rain_msg = StatusText(FALSE)
        /\ pc = "done" => (Broadcast /\ Persisted.rain_state = "False")

C4_Witness ==
    /\ pc = "done"
    /\ prev_rain = "True"
    /\ ~has_rain
    /\ detections = DEBOUNCE_NEED
    /\ Len(Sends("alert")) >= 1

----------------------------------------------------------------------------
(* Ledger properties *)

IsStart(m) == m.chat_id # NoChat /\ NormText(m.text) = "/start"
IsStop(m) == m.chat_id # NoChat /\ NormText(m.text) = "/stop"

\* the subscriber set after one message: add if absent, remove if present
LedgerStep(S, m) ==
    IF IsStart(m) THEN S \cup {m.chat_id}
    ELSE IF IsStop(m) THEN S \ {m.chat_id}
    ELSE S

RECURSIVE LedgerSet(_, _)
LedgerSet(S, batch) ==
    IF batch = <<>> THEN S ELSE LedgerSet(LedgerStep(S, Head(batch)), Tail(batch))

\* the chats added (removed) message by message, in the order of the batch
RECURSIVE NewlyAdded(_, _)
NewlyAdded(S, batch) ==
    IF batch = <<>> THEN <<>>
    ELSE LET m == Head(batch)
         IN  (IF IsStart(m) /\ m.chat_id \notin S THEN <<m.chat_id>> ELSE <<>>)
             \o NewlyAdded(LedgerStep(S, m), Tail(batch))

RECURSIVE NewlyRemoved(_, _)
NewlyRemoved(S, batch) ==
    IF batch = <<>> THEN <<>>
    ELSE LET m == Head(batch)
         IN  (IF IsStop(m) /\ m.chat_id \in S THEN <<m.chat_id>> ELSE <<>>)
             \o NewlyRemoved(LedgerStep(S, m), Tail(batch))

\* the largest update id seen so far: the earlier cursor and the ids of the batch
MaxSeen(cursor, batch) ==
    LET ids == {batch[i].update_id : i \in 1..Len(batch)} \cup ({cursor} \ {NoneId})
    IN  IF ids = {} THEN NoneId ELSE CHOOSE x \in ids : \A y \in ids : y <= x

\* the step in which a run reads and applies its batch
FeedStep == pc = "updates" /\ pc' = "stop_loop"

\* the state right after that step: nothing sent yet, the batch still at hand
FeedApplied == pc = "stop_loop" /\ sent = <<>> /\ upd_ok

RemoveAt(seq, j) == SubSeq(seq, 1, j - 1) \o SubSeq(seq, j + 1, Len(seq))

\* C5: a batch processed in the order received gives the subscriber set of
\* add-if-absent for /start and remove-if-present for /stop applied message by
\* message, the cursor is the largest update id seen, every chat newly added is
\* sent a welcome and every chat removed a goodbye.
C5_LedgerBatch ==
    [][ /\ FeedStep =>
            /\ Range(st'.subscribers) = LedgerSet(Range(st.subscribers), upd')
            /\ st'.last_update_id = MaxSeen(st.last_update_id, upd')
            /\ new_subs' = NewlyAdded(Range(st.subscribers), upd')
            /\ removed_subs' = NewlyRemoved(Range(st.subscribers), upd')
        /\ pc' \in {"forecast", "no_location"} =>
            /\ Recipients("stop")' = removed_subs'
            /\ \A m \in Range(Sends("stop")') : m.text = StopText
        /\ pc' \in {"alert_loop", "done"} =>
            /\ Recipients("welcome")' = new_subs'
            /\ \A m \in Range(Sends("welcome")') : m.text = StatusText(has_rain')
      ]_vars

\* the example of the specification: {111, 222} with [5: /start 333, 6: /stop 111]
C5_Witness ==
    /\ FeedApplied
    /\ Persisted.subscribers = <<111, 222>>
    /\ upd = << [update_id |-> 5, chat_id |-> 333, text |-> "/start"],
                [update_id |-> 6, chat_id |-> 111, text |-> "/stop"] >>
    /\ st.subscribers = <<222, 333>>
    /\ st.last_update_id = 6
    /\ new_subs = <<333>>
    /\ removed_subs = <<111>>

\* C6: a redelivered message changes nothing.  The same message twice in a row
\* in one batch gives the subscribers and the cursor of the batch without the
\* repetition; a batch of messages already applied (no update id above the
\* cursor, every /start from a subscriber, every /stop from a non-subscriber)
\* leaves subscribers and cursor as they are; no chat is ever listed twice.
C6_RedeliveryIdempotent ==
    [][ FeedStep =>
            /\ NoDup(st'.subscribers)
            /\ \A j \in 2..Len(upd') :
                upd'[j] = upd'[j - 1] =>
                    LET once == ProcessBatch(LoopStart(st), RemoveAt(upd', j))
                    IN  /\ st'.subscribers = once.subscribers
                        /\ st'.last_update_id = StoreCursor(st.last_update_id,
                                                            once.max_update_id)
            /\ ( /\ st.last_update_id # NoneId
                 /\ \A i \in 1..Len(upd') : upd'[i].update_id <= st.last_update_id )
                    => st'.last_update_id = st.last_update_id
            /\ ( \A i \in 1..Len(upd') :
                    /\ IsStart(upd'[i]) => upd'[i].chat_id \in Range(st.subscribers)
                    /\ IsStop(upd'[i]) => upd'[i].chat_id \notin Range(st.subscribers) )
                    => (st'.subscribers = st.subscribers /\ new_subs' = <<>>
                        /\ removed_subs' = <<>>)
      ]_vars

C6_Witness ==
    /\ FeedApplied
    /\ Len(upd) = 2
    /\ upd[1] = upd[2]
    /\ IsStart(upd[1])
    /\ upd[1].chat_id \notin Range(Persisted.subscribers) \cup Range(seed_ids)
    /\ new_subs = <<upd[1].chat_id>>
    /\ st.last_update_id = upd[1].update_id

\* C7: the subscriber list, in memory and in the state file, never holds a chat
\* id twice.
C7_NoDuplicateSubscribers ==
    /\ NoDup(st.subscribers)
    /\ NoDup(Persisted.subscribers)

C7_Witness ==
    /\ pc = "done"
    /\ seed_ids = <<111, 222, 222>>
    /\ new_subs = <<333>>
    /\ Len(Persisted.subscribers) = 3

\* C8: the persisted cursor never decreases; a run's cursor is the largest of
\* the cursor it loaded and the update ids of its batch, whatever their order,
\* and is what the run saves; the fetch asks for the updates after the
\* persisted cursor.
C8_CursorOnlyIncreases ==
    [][ /\ Persisted'.last_update_id >= Persisted.last_update_id
        /\ Persisted.last_update_id # NoneId => Persisted'.last_update_id # NoneId
        /\ FeedStep =>
            /\ st.last_update_id = Persisted.last_update_id
            /\ st'.last_update_id = MaxSeen(Persisted.last_update_id, upd')
            /\ st'.last_update_id >= Persisted.last_update_id
            /\ offset' = IF Persisted.last_update_id = NoneId THEN NoneId
                         ELSE Persisted.last_update_id + 1
        /\ pc' = "done" => Persisted'.last_update_id = st.last_update_id
      ]_vars

C8_Witness ==
    /\ FeedApplied
    /\ Persisted.last_update_id = 6
    /\ offset = 7
    /\ Len(upd) = 2
    /\ upd[1].update_id = 6
    /\ upd[2].update_id = 5
    /\ st.last_update_id = 6

\* C9: the seed ids are merged before the feed is read: after the merge every
\* seed id is listed exactly once, the ids already listed stay as they were and
\* are not added again, merging the same seeds once more changes nothing, and
\* the commands of the feed are applied to the merged list.
C9_SeedMergeIdempotent ==
    [][ /\ pc' = "updates" =>
            LET before == Persisted.subscribers
                merged == st'.subscribers
            IN  /\ Range(merged) = Range(before) \cup Range(seed_ids')
                /\ NoDup(merged)
                /\ SubSeq(merged, 1, Len(before)) = before
                /\ Len(merged) =
                       Len(before) + Cardinality(Range(seed_ids') \ Range(before))
                /\ Range(seed_ids') \subseteq Range(before) => merged = before
                /\ SeedSubscribers(merged, seed_ids') = merged
                /\ upd' = <<>> /\ new_subs' = <<>> /\ removed_subs' = <<>>
        /\ FeedStep =>
            /\ Range(seed_ids) \subseteq Range(st.subscribers)
            /\ Range(st'.subscribers) = LedgerSet(Range(st.subscribers), upd')
      ]_vars

C9_Witness ==
    /\ pc = "updates"
    /\ seed_ids = <<111, 222, 222>>
    /\ Persisted.subscribers = <<333, 111>>
    /\ st.subscribers = <<333, 111, 222>>

\* C10: a failed send does not end its loop or the run: the goodbye, welcome and
\* broadcast loops try every recipient of their list whichever sends fail, and
\* the run goes on to write the state back.
C10_FailedSendDoesNotAbort ==
    /\ pc \in {"forecast", "no_location", "error", "welcome_loop", "alert_loop", "done"}
            => Recipients("stop") = removed_subs
    /\ pc \in {"alert_loop", "done"} => Recipients("welcome") = new_subs
    /\ pc = "done" => (Recipients("alert") = AlertList /\ Persisted = st)
    /\ pc = "error" => Sends("stop") = sent

C10_Witness ==
    /\ pc = "done"
    /\ \E i, j \in 1..Len(sent) :
        /\ i < j
        /\ sent[i].kind = "alert" /\ ~sent[i].ok
        /\ sent[j].kind = "alert"
    /\ \E i \in 1..Len(sent) : sent[i].kind = "stop" /\ ~sent[i].ok
    /\ \E i \in 1..Len(sent) : sent[i].kind = "welcome" /\ ~sent[i].ok

----------------------------------------------------------------------------
(* Failures *)

\* the run is under way or over, and its getUpdates call raised
FeedFailed ==
    /\ ~upd_ok
    /\ pc \in {"stop_loop", "forecast", "welcome_loop", "alert_loop", "done",
               "no_location", "error"}

\* C11: a failed getUpdates is an empty feed: the run goes on, no chat is added
\* or removed by a command, no welcome or goodbye is sent, the cursor stays, and
\* the run still evaluates the forecast, decides and saves.
C11_FeedFailureIsEmptyFeed ==
    [][ /\ (pc = "updates" /\ ~upd_ok') =>
            /\ pc' = "stop_loop"
            /\ upd' = <<>>
            /\ st' = st
        /\ FeedFailed' =>
            /\ new_subs' = <<>> /\ removed_subs' = <<>>
            /\ Sends("stop")' = <<>> /\ Sends("welcome")' = <<>>
            /\ st'.last_update_id = Persisted.last_update_id
            /\ Range(st'.subscribers) = Range(Persisted.subscribers) \cup Range(seed_ids')
        /\ (FeedFailed' /\ pc' = "done") =>
            /\ Persisted'.rain_state = PyBool(has_rain')
            /\ Persisted' = st'
      ]_vars

C11_Witness ==
    /\ FeedFailed
    /\ pc = "done"
    /\ send_rain
    /\ Persisted.last_update_id = 6
    /\ Persisted.subscribers = <<333, 111, 222>>
    /\ Len(Sends("alert")) = 3

\* C12 as stated: a failed forecast fetch does not end the run; the run goes on
\* and writes the state, with the feed's changes, back.
C12_ForecastFailureContinues ==
    pc # "error"

\* C13: the state file is written only by the save at the end of a completed
\* run, with the state the run holds in memory; a run that ends before that
\* (no location found, or a failure raised) leaves the file as it was, whatever
\* the feed's commands changed in memory.
C13_SavedOnlyAtEnd ==
    [][ /\ state_file' # state_file =>
            (pc = "alert_loop" /\ pc' = "done" /\ state_file' = <<st>>)
        /\ pc' = "done" => load_state(state_file') = st'
        /\ pc' \in {"no_location", "error"} => state_file' = state_file
        /\ st' # st => (pc' \in {"updates", "stop_loop", "alert_loop"} \/ pc' \in Ended)
      ]_vars

C13_Witness ==
    /\ pc = "no_location"
    /\ new_subs = <<333>>
    /\ removed_subs = <<111>>
    /\ st.last_update_id = 6
    /\ Persisted.last_update_id = 5
    /\ Persisted.subscribers = <<111, 222>>
    /\ Persisted.rain_state = "True"

----------------------------------------------------------------------------
(* The forecast evaluator on its own: a forecast and thresholds are drawn,  *)
(* evaluated as in main(), and evaluated again after one value was raised.  *)

EvalTimes == {H(7), H(31), H(32)}
EvalProbs == {Null, 10, 60}
EvalMms == {Null, 3, 5}
EvalNows == {H(7), H(7) + 30}

EvalInputs ==
    UNION { [time : [1..k -> EvalTimes],
             precipitation : [1..k -> EvalMms],
             precipitation_probability : [1..k -> EvalProbs],
             prog_opad : {PROG_OPAD, 70},
             prog_opad_mm : {PROG_OPAD_MM, 5}] : k \in 0..MaxSamples }

\* 24 samples at hours 0..23 from 07:00, all 10 % and 0.0 mm, thresholds 50 % / 0.3 mm
ExampleFlat ==
    [time |-> [k \in 1..24 |-> H(7) + H(k - 1)],
     precipitation |-> [k \in 1..24 |-> 0],
     precipitation_probability |-> [k \in 1..24 |-> 10],
     prog_opad |-> PROG_OPAD, prog_opad_mm |-> PROG_OPAD_MM]

\* the same with hour 5 at 60 %
ExampleHour5 ==
    [ExampleFlat EXCEPT !.precipitation_probability[6] = 60]

EvalInit ==
    /\ state_file = NoFile
    /\ pc = "forecast"
    /\ now \in EvalNows
    /\ seed_ids = <<>>
    /\ st = DEFAULT_STATE
    /\ offset = NoneId
    /\ upd_ok = FALSE
    /\ upd = <<>>
    /\ new_subs = <<>>
    /\ removed_subs = <<>>
    /\ has_rain = FALSE
    /\ prev_rain = None
    /\ send_rain = FALSE
    /\ rain_msg = None
    /\ sent = <<>>
    /\ detections = 0
    /\ last_alert = None
    /\ ev \in EvalInputs \cup {ExampleFlat, ExampleHour5}

\* lines 215-228 on the forecast at hand
EvalForecast ==
    /\ pc = "forecast"
    /\ has_rain' = HasRain(ev, now, ev.prog_opad, ev.prog_opad_mm)
    /\ pc' = "welcome_loop"
    /\ UNCHANGED <<state_file, now, seed_ids, st, offset, upd_ok, upd, new_subs,
                   removed_subs, prev_rain, send_rain, rain_msg, sent, detections,
                   last_alert, ev>>

\* the same forecast with the probability of one sample raised, evaluated again
RaiseProbability ==
    /\ pc = "welcome_loop"
    /\ Len(ev.time) <= MaxSamples
    /\ \E i \in 1..Len(ev.time), p \in EvalProbs :
        /\ _to_float(p) > _to_float(ev.precipitation_probability[i])
        /\ ev' = [ev EXCEPT !.precipitation_probability[i] = p]
    /\ has_rain' = HasRain(ev', now, ev'.prog_opad, ev'.prog_opad_mm)
    /\ UNCHANGED <<state_file, pc, now, seed_ids, st, offset, upd_ok, upd, new_subs,
                   removed_subs, prev_rain, send_rain, rain_msg, sent, detections,
                   last_alert>>

\* the same forecast with the amount of one sample raised, evaluated again
RaiseAmount ==
    /\ pc = "welcome_loop"
    /\ Len(ev.time) <= MaxSamples
    /\ \E i \in 1..Len(ev.time), m \in EvalMms :
        /\ _to_float(m) > _to_float(ev.precipitation[i])
        /\ ev' = [ev EXCEPT !.precipitation[i] = m]
    /\ has_rain' = HasRain(ev', now, ev'.prog_opad, ev'.prog_opad_mm)
    /\ UNCHANGED <<state_file, pc, now, seed_ids, st, offset, upd_ok, upd, new_subs,
                   removed_subs, prev_rain, send_rain, rain_msg, sent, detections,
                   last_alert>>

EvalNext ==
    \/ EvalForecast
    \/ RaiseProbability
    \/ RaiseAmount

EvalSpec == EvalInit /\ [][EvalNext]_vars

\* the second forecast is the first with no value lowered and one value raised
RaisedFrom(a, b) ==
    /\ b.time = a.time
    /\ b.prog_opad = a.prog_opad /\ b.prog_opad_mm = a.prog_opad_mm
    /\ \A i \in 1..Len(a.time) :
        /\ _to_float(b.precipitation[i]) >= _to_float(a.precipitation[i])
        /\ _to_float(b.precipitation_probability[i])
               >= _to_float(a.precipitation_probability[i])
    /\ b # a

\* C14: for all thresholds and sample sets, raising the probability or the
\* amount of one sample never turns rain_expected from true to false.
C14_RainExpectedMonotonic ==
    [][ (pc = "welcome_loop" /\ pc' = "welcome_loop" /\ RaisedFrom(ev, ev'))
            => (has_rain => has_rain') ]_vars

C14_Witness ==
    /\ pc = "welcome_loop"
    /\ has_rain
    /\ ev.time = <<H(7), H(31)>>
    /\ ev.precipitation_probability = <<60, 60>>
    /\ ev.precipitation = <<Null, 5>>
    /\ ev.prog_opad = 70
    /\ ev.prog_opad_mm = 5

\* a sample time lies in the next 24 hours
InNext24h(t) == now <= t /\ t <= now + 24 * 60

\* the samples of the window, as <<probability, amount>> with null read as 0
WindowSamples ==
    { << IF ev.precipitation_probability[i] = Null THEN 0
         ELSE ev.precipitation_probability[i],
         IF ev.precipitation[i] = Null THEN 0 ELSE ev.precipitation[i] >> :
      i \in {j \in 1..Len(ev.time) : InNext24h(ev.time[j])} }

\* C15: rain_expected is true exactly when some sample of the next 24 hours
\* (now <= t <= now + 24h) has probability >= the probability threshold or
\* amount >= the mm threshold; samples outside the window do not count and an
\* empty window gives false.  The 24 samples at 10 % / 0.0 mm give false under
\* 50 % / 0.3 mm, and true once hour 5 is at 60 %.
C15_RainExpectedDefinition ==
    pc = "welcome_loop" =>
        /\ has_rain = (\E x \in WindowSamples :
                           x[1] >= ev.prog_opad \/ x[2] >= ev.prog_opad_mm)
        /\ WindowSamples = {} => ~has_rain
        /\ ev = ExampleFlat => ~has_rain
        /\ ev = ExampleHour5 => has_rain

C15_Witness ==
    /\ pc = "welcome_loop"
    /\ ev = ExampleHour5
    /\ has_rain

----------------------------------------------------------------------------
(* The start of a run at every minute of the day *)

\* every hour of the day, at its first, middle and last minutes
DayTimes == (0..23) \X {0, 29, 30, 59}

\* state files that earlier runs have written
StoredFiles ==
    {NoFile,
     <<[rain_state |-> "True", subscribers |-> <<111, 222>>, last_update_id |-> 5,
        last_status_text |-> StatusText(TRUE)]>>,
     <<[rain_state |-> "False", subscribers |-> <<333>>, last_update_id |-> 6,
        last_status_text |-> StatusText(FALSE)]>>}

NightInit ==
    /\ state_file \in StoredFiles
    /\ pc = "idle"
    /\ now = 0
    /\ seed_ids = <<>>
    /\ st = DEFAULT_STATE
    /\ offset = NoneId
    /\ upd_ok = FALSE
    /\ upd = <<>>
    /\ new_subs = <<>>
    /\ removed_subs = <<>>
    /\ has_rain = FALSE
    /\ prev_rain = None
    /\ send_rain = FALSE
    /\ rain_msg = None
    /\ sent = <<>>
    /\ detections = 0
    /\ last_alert = None
    /\ ev = NoForecast

NightNext ==
    \/ NightExitAt(DayTimes)
    \/ NoTokenExitAt(DayTimes)
    \/ LoadAndSeedAt(DayTimes)

NightSpec == NightInit /\ [][NightNext]_vars

\* C16: a run started between 22:00 and 06:59 ends at once: the state file
\* is neither read nor written, the feed is not polled and no message is
\* sent; a run started between 07:00 and 21:59 is not skipped by the break.
C16_NightBreak ==
    [][ (pc \in Ended)
        => IF now' >= H(22) \/ now' <= H(6) + 59
           THEN /\ pc' = "night"
                /\ state_file' = state_file
                /\ st' = DEFAULT_STATE
                /\ offset' = NoneId /\ ~upd_ok' /\ upd' = <<>>
                /\ sent' = <<>>
           ELSE /\ now' >= H(7) /\ now' <= H(21) + 59
                /\ pc' # "night"
      ]_vars

C16_Witness ==
    /\ pc = "night"
    /\ now = H(6) + 59
    /\ state_file # NoFile
    /\ st = DEFAULT_STATE
    /\ sent = <<>>

----------------------------------------------------------------------------
(* Who is written to *)

\* the chats that a message of the given kind has reached in this run
Reached(kind) == {m.to : m \in {x \in Range(Sends(kind)) : x.ok}}

\* the chats whose /stop took them off the list, and no later /start put them back
StoppedNow == Range(removed_subs) \ Range(st.subscribers)

\* C17 as stated: a chat whose /stop was processed and that was removed gets
\* no broadcast in that run and is absent from the persisted list (until a
\* later /start), also when its id is among the seed ids; stated here for the
\* run that processed the /stop.
C17_StopRespected ==
    \A c \in StoppedNow :
        /\ c \notin Reached("alert")
        /\ pc = "done" => c \notin Range(Persisted.subscribers)

\* C18 as stated: every chat that is sent the welcome status in a run is in
\* the subscriber list persisted at the end of that run, for every batch
\* order, including /start followed by /stop from the same chat.
C18_WelcomedArePersisted ==
    pc = "done" => Reached("welcome") \subseteq Range(Persisted.subscribers)

\* the status messages (welcome or broadcast) that reached a chat in this run
StatusMessagesTo(c) ==
    {i \in 1..Len(sent) : /\ sent[i].to = c
                          /\ sent[i].ok
                          /\ sent[i].kind \in {"welcome", "alert"}}

\* C19 as stated: within one run each chat is sent the status text at most
\* once; a chat that subscribes in a run where the state changes (or on the
\* first run) does not get both the welcome and the broadcast.
C19_StatusAtMostOnce ==
    \A c \in Chats : Cardinality(StatusMessagesTo(c)) <= 1

\* C20: over any sequence of completed, skipped and aborted runs, the
\* rain_state persisted by a completed run is that run's computed signal, and
\* a run that broadcasts announces the opposite of the signal announced by
\* the broadcast before it: the same status is never broadcast twice in a row.
C20_NeverSameStatusTwice ==
    /\ pc = "done" => Persisted.rain_state = PyBool(has_rain)
    /\ (Decided /\ send_rain /\ last_alert # None) => PyBool(has_rain) # last_alert
    /\ (Decided /\ last_alert # None) =>
            /\ prev_rain = last_alert
            /\ send_rain = (PyBool(has_rain) # last_alert)
    /\ last_alert # None => Persisted.rain_state # None

C20_Witness ==
    /\ pc = "done"
    /\ send_rain
    /\ last_alert = "True"
    /\ ~has_rain
    /\ Persisted.rain_state = "False"
    /\ Reached("alert") = {111, 222}

====
